---------------------------- MODULE Spec2Model ----------------------------
(***************************************************************************)
(* The Todo store of to-do-loo: the Todo table and the request handlers of *)
(* todos/views.py (list, detail, create, update, delete, toggle) with the  *)
(* validation of todos/forms.py.                                           *)
(*                                                                         *)
(* Text is a sequence of one-character strings.  A submitted form field is *)
(* <<>> when the field is left out of the submission and <<v>> when it is  *)
(* submitted with the raw value v.                                         *)
(*                                                                         *)
(* Spec      one request at a time: every handler is one atomic action.    *)
(* SpecList  the same handlers on a store large enough to need two pages.  *)
(* SpecConc  interleaved requests: a handler is split at its database      *)
(*           statements (the SELECT of get_object, the write of save() or  *)
(*           delete()).                                                    *)
(***************************************************************************)
EXTENDS Integers, Sequences, FiniteSets, TLC

VARIABLES
    todos,      \* the Todo table: id -> row
    nextId,     \* the next value of the id column's sequence
    clock,      \* the last value timezone.now() returned
    response,   \* the response to the last finished request
    deleted,    \* history: ids a DeleteView request removed
    hist,       \* history, per stored id: the toggles in a row since any other
                \* write of the id, and completed as it was before them
    pc,         \* per worker: where its request stands
    obj         \* per worker: the instance its request loaded

vars == <<todos, nextId, clock, response, deleted, hist, pc, obj>>

---------------------------------------------------------------------------
(* Bounds of the model *)

MaxTodos == 2

MaxClock == 3

MaxPage == 2

MaxListTodos == 11

MaxConcTodos == 1

MaxConcClock == 3

---------------------------------------------------------------------------
(* Program constants *)

paginate_by == 10

max_length == 200

\* None in a nullable column
Null == "None"

Workers == {1, 2}

---------------------------------------------------------------------------
(* Text and form fields *)

IsSpace(c) == c = " "

RECURSIVE LStrip(_)
LStrip(s) ==
    IF s # <<>> /\ IsSpace(Head(s)) THEN LStrip(Tail(s)) ELSE s

RECURSIVE RStrip(_)
RStrip(s) ==
    IF s # <<>> /\ IsSpace(s[Len(s)]) THEN RStrip(SubSeq(s, 1, Len(s) - 1)) ELSE s

\* forms.CharField.to_python: strip=True
Strip(s) == RStrip(LStrip(s))

Repeat(c, n) == [i \in 1..n |-> c]

\* The raw value of a field in the POST data; missing -> the widget's empty value
RawText(field) == IF field = <<>> THEN <<>> ELSE field[1]

\* forms.CharField.clean for title: strip, required, max_length
CleanTitle(field) == Strip(RawText(field))

TitleErrors(field) ==
    LET v == CleanTitle(field)
    IN  (IF v = <<>> THEN {"required"} ELSE {})
        \cup (IF Len(v) > max_length THEN {"max_length"} ELSE {})

\* forms.CharField.clean for description: strip, not required
CleanDescription(field) == Strip(RawText(field))

\* The datetime-local strings the model submits, and what they parse to
DateTimeValid == "2026-01-01T10:00"

DateTimeInvalid == "tomorrow"

DateTimeParsed == "2026-01-01 10:00:00"

ParseDateTime(s) == IF s = DateTimeValid THEN DateTimeParsed ELSE Null

\* forms.DateTimeField(required=False).clean
CleanDueDate(field) ==
    IF field = <<>> \/ field[1] = "" THEN Null ELSE ParseDateTime(field[1])

DueDateErrors(field) ==
    IF field # <<>> /\ field[1] # "" /\ field[1] # DateTimeValid
    THEN {"invalid"} ELSE {}

\* forms.CheckboxInput.value_from_datadict, then forms.BooleanField.clean
CleanCompleted(field) ==
    IF field = <<>> THEN FALSE
    ELSE IF field[1] \in {"False", "false"} THEN FALSE
    ELSE IF field[1] \in {"True", "true"} THEN TRUE
    ELSE field[1] # ""

\* TodoForm.is_valid
FormErrors(data) == TitleErrors(data.title) \cup DueDateErrors(data.due_date)

IsValid(data) == FormErrors(data) = {}

\* TodoForm.Meta.fields applied to an instance (construct_instance)
FormFields(data) ==
    [title       |-> CleanTitle(data.title),
     description |-> CleanDescription(data.description),
     due_date    |-> CleanDueDate(data.due_date),
     completed   |-> CleanCompleted(data.completed)]

\* Faulty variant: completed is not among the form's fields, so an update keeps it
ConstructInstance_without_completed(inst, data) ==
    [inst EXCEPT !.title       = FormFields(data).title,
                 !.description = FormFields(data).description,
                 !.due_date    = FormFields(data).due_date]

ConstructInstance(inst, data) ==
    [inst EXCEPT !.title       = FormFields(data).title,
                 !.description = FormFields(data).description,
                 !.due_date    = FormFields(data).due_date,
                 !.completed   = FormFields(data).completed]

---------------------------------------------------------------------------
(* The Todo table *)

\* A new, unsaved Todo: the model's field defaults
NewTodo ==
    [title |-> <<>>, description |-> <<>>, completed |-> FALSE,
     due_date |-> Null, created_at |-> 0, updated_at |-> 0]

\* Todo.updated_at: auto_now sets it on every save
AutoNow(inst, now) == [inst EXCEPT !.updated_at = now]

\* Todo.created_at: auto_now_add sets it when the row is inserted
AutoNowAdd(inst, now) == [inst EXCEPT !.created_at = now]

\* Model.save() of a new instance: INSERT with the id given
InsertInstance(store, id, inst, now) ==
    [i \in DOMAIN store \cup {id} |->
        IF i = id THEN AutoNow(AutoNowAdd(inst, now), now) ELSE store[i]]

\* Model.save() of a loaded instance: UPDATE of every column; when the UPDATE
\* matches no row, INSERT
SaveInstance(store, pk, inst, now) ==
    IF pk \in DOMAIN store
    THEN [store EXCEPT ![pk] = AutoNow(inst, now)]
    ELSE InsertInstance(store, pk, inst, now)

\* Model.delete(): DELETE ... WHERE id = pk
DeleteRow(store, pk) == [i \in DOMAIN store \ {pk} |-> store[i]]

\* Faulty variant: the toggle marks the todo done instead of flipping it
Flip_set_true(inst) == [inst EXCEPT !.completed = TRUE]

\* todo.completed = not todo.completed
Flip(inst) == [inst EXCEPT !.completed = ~inst.completed]

\* get_object_or_404 / SingleObjectMixin.get_object
Exists(store, pk) == pk \in DOMAIN store

\* Meta.ordering: most recently created first (no two rows of a run share
\* created_at; were they to, the higher id is taken first)
RECURSIVE Ordered(_, _)
Ordered(store, ids) ==
    IF ids = {} THEN <<>>
    ELSE LET first == CHOOSE i \in ids :
                        \A j \in ids :
                            \/ store[j].created_at < store[i].created_at
                            \/ (store[j].created_at = store[i].created_at /\ j <= i)
         IN  <<first>> \o Ordered(store, ids \ {first})

Queryset(store) == Ordered(store, DOMAIN store)

\* Paginator.num_pages: allow_empty_first_page, orphans = 0
NumPages(count) ==
    IF count = 0 THEN 1 ELSE (count + paginate_by - 1) \div paginate_by

\* Faulty variant: the slice runs one past the page
PageObjects_one_past(store, number) ==
    LET qs     == Queryset(store)
        bottom == (number - 1) * paginate_by
        top    == IF bottom + paginate_by + 1 >= Len(qs) THEN Len(qs)
                  ELSE bottom + paginate_by + 1
    IN  SubSeq(qs, bottom + 1, top)

\* Paginator.page(number).object_list
PageObjects(store, number) ==
    LET qs     == Queryset(store)
        bottom == (number - 1) * paginate_by
        top    == IF bottom + paginate_by >= Len(qs) THEN Len(qs)
                  ELSE bottom + paginate_by
    IN  SubSeq(qs, bottom + 1, top)

ValidPage(store, number) ==
    number >= 1 /\ number <= NumPages(Cardinality(DOMAIN store))

Response(op, pk, status, body, errors) ==
    [op |-> op, pk |-> pk, status |-> status, body |-> body, errors |-> errors]

Redirect(op, pk) == Response(op, pk, 302, <<>>, {})

NotFound(op, pk) == Response(op, pk, 404, <<>>, {})

FormInvalid(op, pk, data) == Response(op, pk, 200, <<>>, FormErrors(data))

---------------------------------------------------------------------------
(* History *)

NoToggles == [toggles |-> 0, origin |-> FALSE]

\* a write of pk that is no toggle (an insert, an update)
NoteWrite(store, pk) ==
    hist' = [i \in DOMAIN store |-> IF i = pk \/ i \notin DOMAIN hist
                                    THEN NoToggles ELSE hist[i]]

\* a toggle of pk that found `was` in the completed column
NoteToggle(store, pk, was) ==
    hist' = [i \in DOMAIN store |->
               IF i \notin DOMAIN hist THEN NoToggles
               ELSE IF i # pk THEN hist[i]
               ELSE IF hist[i].toggles = 0 THEN [toggles |-> 1, origin |-> was]
               ELSE [hist[i] EXCEPT !.toggles = @ + 1]]

NoteDelete(store, pk) ==
    /\ hist' = [i \in DOMAIN store |-> hist[i]]
    /\ deleted' = deleted \cup {pk}

---------------------------------------------------------------------------
(* The request handlers, one request at a time *)

Idle == UNCHANGED <<pc, obj>>

\* TodoListView.get
TodoListView(page) ==
    /\ response' = IF ValidPage(todos, page)
                   THEN Response("list", page, 200, PageObjects(todos, page), {})
                   ELSE NotFound("list", page)
    /\ UNCHANGED <<todos, nextId, clock, deleted, hist>>
    /\ Idle

\* TodoDetailView.get
TodoDetailView(pk) ==
    /\ response' = IF Exists(todos, pk)
                   THEN Response("get", pk, 200, <<pk>>, {})
                   ELSE NotFound("get", pk)
    /\ UNCHANGED <<todos, nextId, clock, deleted, hist>>
    /\ Idle

\* Faulty variant: the view saves the form without asking whether it is valid
TodoCreateView_unvalidated(data) ==
    /\ todos' = InsertInstance(todos, nextId,
                                ConstructInstance(NewTodo, data), clock + 1)
    /\ nextId' = nextId + 1
    /\ clock' = clock + 1
    /\ response' = Redirect("create", nextId)
    /\ NoteWrite(todos', nextId)
    /\ UNCHANGED deleted
    /\ Idle

\* TodoCreateView.post
TodoCreateView(data) ==
    /\ IF IsValid(data)
       THEN /\ todos' = InsertInstance(todos, nextId,
                                       ConstructInstance(NewTodo, data), clock + 1)
            /\ nextId' = nextId + 1
            /\ clock' = clock + 1
            /\ response' = Redirect("create", nextId)
            /\ NoteWrite(todos', nextId)
       ELSE /\ response' = FormInvalid("create", 0, data)
            /\ UNCHANGED <<todos, nextId, clock, hist>>
    /\ UNCHANGED deleted
    /\ Idle

\* TodoUpdateView.post
TodoUpdateView(pk, data) ==
    /\ IF ~Exists(todos, pk)
       THEN /\ response' = NotFound("update", pk)
            /\ UNCHANGED <<todos, clock, hist>>
       ELSE IF IsValid(data)
       THEN /\ todos' = SaveInstance(todos, pk,
                                     ConstructInstance(todos[pk], data), clock + 1)
            /\ clock' = clock + 1
            /\ response' = Redirect("update", pk)
            /\ NoteWrite(todos', pk)
       ELSE /\ response' = FormInvalid("update", pk, data)
            /\ UNCHANGED <<todos, clock, hist>>
    /\ UNCHANGED <<nextId, deleted>>
    /\ Idle

\* TodoDeleteView.post
TodoDeleteView(pk) ==
    /\ IF ~Exists(todos, pk)
       THEN /\ response' = NotFound("delete", pk)
            /\ UNCHANGED <<todos, deleted, hist>>
       ELSE /\ todos' = DeleteRow(todos, pk)
            /\ response' = Redirect("delete", pk)
            /\ NoteDelete(todos', pk)
    /\ UNCHANGED <<nextId, clock>>
    /\ Idle

\* Faulty variant: get_or_create in place of get_object_or_404
toggle_todo_get_or_create(pk) ==
    /\ todos' = SaveInstance(todos, pk,
                              Flip(IF Exists(todos, pk) THEN todos[pk] ELSE NewTodo),
                              clock + 1)
    /\ clock' = clock + 1
    /\ response' = Redirect("toggle", pk)
    /\ NoteToggle(todos', pk, IF Exists(todos, pk) THEN todos[pk].completed ELSE FALSE)
    /\ UNCHANGED <<nextId, deleted>>
    /\ Idle

\* Faulty variant: the flag is written with a queryset update(), which skips auto_now
toggle_todo_queryset_update(pk) ==
    /\ IF ~Exists(todos, pk)
       THEN /\ response' = NotFound("toggle", pk)
            /\ UNCHANGED <<todos, hist>>
       ELSE /\ todos' = [todos EXCEPT ![pk] = Flip(todos[pk])]
            /\ response' = Redirect("toggle", pk)
            /\ NoteToggle(todos', pk, todos[pk].completed)
    /\ UNCHANGED <<nextId, deleted, clock>>
    /\ Idle

\* toggle_todo
toggle_todo(pk) ==
    /\ IF ~Exists(todos, pk)
       THEN /\ response' = NotFound("toggle", pk)
            /\ UNCHANGED <<todos, clock, hist>>
       ELSE /\ todos' = SaveInstance(todos, pk, Flip(todos[pk]), clock + 1)
            /\ clock' = clock + 1
            /\ response' = Redirect("toggle", pk)
            /\ NoteToggle(todos', pk, todos[pk].completed)
    /\ UNCHANGED <<nextId, deleted>>
    /\ Idle

---------------------------------------------------------------------------
(* The request handlers, interleaved: worker w runs one request at a time, *)
(* and the workers' database statements interleave                         *)

Loaded(pk, inst) == [pk |-> pk, inst |-> inst]

NothingLoaded == Loaded(0, NewTodo)

Goto(w, label, loaded) ==
    /\ pc' = [pc EXCEPT ![w] = label]
    /\ obj' = [obj EXCEPT ![w] = loaded]

\* toggle_todo: get_object_or_404(Todo, pk=pk)
toggle_todo_get(w, pk) ==
    /\ pc[w] = "idle"
    /\ IF Exists(todos, pk)
       THEN /\ Goto(w, "toggle_save", Loaded(pk, todos[pk]))
            /\ UNCHANGED response
       ELSE /\ response' = NotFound("toggle", pk)
            /\ UNCHANGED <<pc, obj>>
    /\ UNCHANGED <<todos, nextId, clock, deleted, hist>>

\* toggle_todo: todo.completed = not todo.completed; todo.save(); redirect
toggle_todo_save(w) ==
    /\ pc[w] = "toggle_save"
    /\ todos' = SaveInstance(todos, obj[w].pk, Flip(obj[w].inst), clock + 1)
    /\ clock' = clock + 1
    /\ response' = Redirect("toggle", obj[w].pk)
    /\ NoteToggle(todos', obj[w].pk, obj[w].inst.completed)
    /\ Goto(w, "idle", NothingLoaded)
    /\ UNCHANGED <<nextId, deleted>>

\* TodoUpdateView.post: get_object(), get_form(), form.is_valid()
TodoUpdateView_get(w, pk, data) ==
    /\ pc[w] = "idle"
    /\ IF ~Exists(todos, pk)
       THEN /\ response' = NotFound("update", pk)
            /\ UNCHANGED <<pc, obj>>
       ELSE IF IsValid(data)
       THEN /\ Goto(w, "update_save", Loaded(pk, ConstructInstance(todos[pk], data)))
            /\ UNCHANGED response
       ELSE /\ response' = FormInvalid("update", pk, data)
            /\ UNCHANGED <<pc, obj>>
    /\ UNCHANGED <<todos, nextId, clock, deleted, hist>>

\* TodoUpdateView.post: form_valid(): form.save(); redirect
TodoUpdateView_save(w) ==
    /\ pc[w] = "update_save"
    /\ todos' = SaveInstance(todos, obj[w].pk, obj[w].inst, clock + 1)
    /\ clock' = clock + 1
    /\ response' = Redirect("update", obj[w].pk)
    /\ NoteWrite(todos', obj[w].pk)
    /\ Goto(w, "idle", NothingLoaded)
    /\ UNCHANGED <<nextId, deleted>>

\* TodoDeleteView.post: get_object()
TodoDeleteView_get(w, pk) ==
    /\ pc[w] = "idle"
    /\ IF Exists(todos, pk)
       THEN /\ Goto(w, "delete", Loaded(pk, todos[pk]))
            /\ UNCHANGED response
       ELSE /\ response' = NotFound("delete", pk)
            /\ UNCHANGED <<pc, obj>>
    /\ UNCHANGED <<todos, nextId, clock, deleted, hist>>

\* TodoDeleteView.post: form_valid(): self.object.delete(); redirect
TodoDeleteView_delete(w) ==
    /\ pc[w] = "delete"
    /\ todos' = DeleteRow(todos, obj[w].pk)
    /\ response' = Redirect("delete", obj[w].pk)
    /\ NoteDelete(todos', obj[w].pk)
    /\ Goto(w, "idle", NothingLoaded)
    /\ UNCHANGED <<nextId, clock>>

---------------------------------------------------------------------------
(* Inputs *)

Form(title, description, due_date, completed) ==
    [title |-> title, description |-> description,
     due_date |-> due_date, completed |-> completed]

\* Submissions TodoForm accepts
ValidData ==
    {Form(<< <<"a">> >>, <<>>, <<>>, <<>>),
     Form(<< <<"a">> >>, << <<"d", " ">> >>, <<"">>, <<"on">>),
     Form(<< <<" ", "b">> >>, << <<"d", " ">> >>, <<DateTimeValid>>, <<"False">>),
     Form(<< <<" ", "b">> >>, <<>>, <<DateTimeValid>>, <<"on">>)}

\* Submissions TodoForm rejects
InvalidData ==
    {Form(<<>>, <<>>, <<>>, <<>>),
     Form(<< <<>> >>, << <<"d", " ">> >>, <<DateTimeValid>>, <<"on">>),
     Form(<< <<" ">> >>, <<>>, <<>>, <<"on">>),
     Form(<< Repeat("a", max_length + 1) >>, <<>>, <<>>, <<>>),
     Form(<< <<"a">> >>, <<>>, <<DateTimeInvalid>>, <<>>)}

FormData == ValidData \cup InvalidData

\* The submissions of the interleaved and of the paged runs
FirstData == Form(<< <<"a">> >>, <<>>, <<>>, <<>>)

SecondData == Form(<< <<" ", "b">> >>, << <<"d", " ">> >>, <<DateTimeValid>>, <<"on">>)

Pks(n) == 1..(n + 1)

Pages == 0..MaxPage

\* The ids the paged runs delete: the first, and the two around the page break
ListDeletes == {1, paginate_by, paginate_by + 1}

Init ==
    /\ todos = <<>>
    /\ nextId = 1
    /\ clock = 0
    /\ response = Response("none", 0, 0, <<>>, {})
    /\ deleted = {}
    /\ hist = <<>>
    /\ pc = [w \in Workers |-> "idle"]
    /\ obj = [w \in Workers |-> NothingLoaded]

Next ==
    \/ \E page \in Pages : TodoListView(page)
    \/ \E pk \in Pks(MaxTodos) : TodoDetailView(pk)
    \/ \E data \in FormData :
         /\ nextId <= MaxTodos
         /\ clock < MaxClock
         /\ TodoCreateView(data)
    \/ \E pk \in Pks(MaxTodos), data \in FormData :
         /\ clock < MaxClock
         /\ TodoUpdateView(pk, data)
    \/ \E pk \in Pks(MaxTodos) : TodoDeleteView(pk)
    \/ \E pk \in Pks(MaxTodos) :
         /\ clock < MaxClock
         /\ toggle_todo(pk)

Spec == Init /\ [][Next]_vars

NextList ==
    \/ \E page \in Pages : TodoListView(page)
    \/ /\ nextId <= MaxListTodos
       /\ TodoCreateView(FirstData)
    \/ \E pk \in ListDeletes : TodoDeleteView(pk)

SpecList == Init /\ [][NextList]_vars

NextConc ==
    \/ /\ nextId <= MaxConcTodos
       /\ clock < MaxConcClock
       /\ \E data \in {FirstData, SecondData} : TodoCreateView(data)
    \/ \E w \in Workers :
         \/ \E pk \in 1..MaxConcTodos : toggle_todo_get(w, pk)
         \/ clock < MaxConcClock /\ toggle_todo_save(w)
         \/ \E pk \in 1..MaxConcTodos, data \in {FirstData, SecondData} :
              TodoUpdateView_get(w, pk, data)
         \/ clock < MaxConcClock /\ TodoUpdateView_save(w)
         \/ \E pk \in 1..MaxConcTodos : TodoDeleteView_get(w, pk)
         \/ TodoDeleteView_delete(w)
    \/ \E pk \in 1..MaxConcTodos : TodoDetailView(pk)

SpecConc == Init /\ [][NextConc]_vars

---------------------------------------------------------------------------
(* Properties *)

StoredIds == DOMAIN todos

ToggledInARow(id) == hist[id].toggles

\* C1: one toggle of an existing todo leaves completed the negation of what
\* it was, and two toggles in a row (no other write of that id in between)
\* leave it as it was before the first; in general an odd number of toggles
\* in a row negates it and an even number restores it.
C1_ToggleFlipsAndTwiceRestores ==
    \A id \in StoredIds :
        /\ ToggledInARow(id) % 2 = 1 => todos[id].completed = ~hist[id].origin
        /\ (ToggledInARow(id) > 0 /\ ToggledInARow(id) % 2 = 0) =>
              todos[id].completed = hist[id].origin

C1_ToggledTwice ==
    \E id \in StoredIds :
        /\ ToggledInARow(id) = 2
        /\ response = Redirect("toggle", id)

EmptyTitle(data) == RawText(data.title) = <<>>

Rerendered(op, pk) ==
    /\ response'.op = op
    /\ response'.pk = pk
    /\ response'.status = 200
    /\ "required" \in response'.errors

\* C2: a create or an update whose title is empty is answered with the form
\* and its error (status 200, no redirect), and the table is as before: no
\* row added, no row changed, no id consumed.
C2_EmptyTitleRejected ==
    [][\A data \in FormData :
         EmptyTitle(data) =>
           /\ TodoCreateView(data) =>
                Rerendered("create", 0) /\ UNCHANGED <<todos, nextId>>
           /\ \A pk \in StoredIds :
                TodoUpdateView(pk, data) =>
                  Rerendered("update", pk) /\ UNCHANGED <<todos, nextId>>]_vars

C2_EmptyTitleUpdateRefused ==
    /\ response.op = "update"
    /\ response.status = 200
    /\ response.errors = {"required"}
    /\ response.pk \in StoredIds

\* C3: an id that a delete removed is in no later state in the table: a get
\* of it answers 404, and no create is given it again (it lies below the
\* next id).
C3_DeletedStaysGone ==
    /\ deleted \cap StoredIds = {}
    /\ \A id \in deleted : id < nextId
    /\ response.op = "delete" /\ response.status = 302 => response.pk \in deleted
    /\ response.op = "get" /\ response.pk \in deleted => response.status = 404

C3_GetAfterDelete ==
    /\ response.op = "get"
    /\ response.pk \in deleted
    /\ \E id \in StoredIds : id > response.pk

\* C4: a get, update, delete or toggle of an id that is not in the table
\* answers 404 and changes nothing of the table.
C4_MissingIdNotFound ==
    [][(/\ response'.op \in {"get", "update", "delete", "toggle"}
        /\ response'.pk \notin StoredIds)
         => /\ response'.status = 404
            /\ UNCHANGED <<todos, nextId, deleted>>]_vars

C4_ToggleOfMissingId ==
    /\ response = NotFound("toggle", response.pk)
    /\ response.pk \notin StoredIds
    /\ StoredIds # {}

\* C5: every successful create persists a todo with completed = FALSE.
C5_CreateEntersPending ==
    [][(response'.op = "create" /\ response'.status = 302)
         => todos'[response'.pk].completed = FALSE]_vars

\* What a submission supplies: a field left out supplies its empty value
SuppliedText(field) == IF field = <<>> THEN <<>> ELSE field[1]

SuppliedDueDate(field) ==
    IF field = <<>> \/ field[1] = "" THEN Null ELSE DateTimeParsed

SuppliedCompleted(field) == field = <<"on">>

UpdateKeepsIdentity(pk) ==
    /\ DOMAIN todos' = StoredIds
    /\ todos'[pk].created_at = todos[pk].created_at

Trimmed(text) ==
    LET inner == {i \in 1..Len(text) : text[i] # " "}
    IN  IF inner = {} THEN <<>>
        ELSE SubSeq(text,
                    CHOOSE i \in inner : \A j \in inner : i <= j,
                    CHOOSE i \in inner : \A j \in inner : i >= j)

C7_NoLostToggle ==
    \A id \in StoredIds :
        (ToggledInARow(id) = 2 /\ response = Redirect("toggle", id))
            => todos[id].completed = hist[id].origin

RECURSIVE PagesUpTo(_)
PagesUpTo(n) ==
    IF n = 0 THEN <<>>
    ELSE PagesUpTo(n - 1)
         \o (IF ValidPage(todos, n) THEN PageObjects(todos, n) ELSE <<>>)

Range(seq) == {seq[i] : i \in 1..Len(seq)}

NewestFirst(seq) ==
    \A i, j \in 1..Len(seq) :
        i < j => todos[seq[i]].created_at >= todos[seq[j]].created_at

\* C8: every page of the list holds at most paginate_by todos, newest first;
\* the pages one after the other hold every stored todo exactly once; with at
\* most paginate_by todos stored the first page holds them all.
C8_PagesPartitionTheStore ==
    LET count == Cardinality(StoredIds)
        all   == PagesUpTo(count + 1)
    IN  /\ \A page \in Pages :
             ValidPage(todos, page) =>
               /\ Len(PageObjects(todos, page)) <= paginate_by
               /\ NewestFirst(PageObjects(todos, page))
        /\ NewestFirst(all)
        /\ Len(all) = count
        /\ Range(all) = StoredIds
        /\ count <= paginate_by => Range(PageObjects(todos, 1)) = StoredIds
        /\ response.op = "list" =>
             /\ Len(response.body) <= paginate_by
             /\ response.status = 200 =>
                  response.body = PageObjects(todos, response.pk)

C8_SecondPageServed ==
    /\ Cardinality(StoredIds) > paginate_by
    /\ response.op = "list"
    /\ response.pk = 2
    /\ response.status = 200
    /\ response.body # <<>>

TimestampsOrdered ==
    \A id \in StoredIds : todos[id].created_at <= todos[id].updated_at

TimestampsStep ==
    \A id \in StoredIds \cap DOMAIN todos' :
        /\ todos'[id].created_at = todos[id].created_at
        /\ response' \in {Redirect("update", id), Redirect("toggle", id)} =>
             /\ todos'[id].updated_at = clock'
             /\ todos'[id].updated_at > todos[id].updated_at

\* C9: every stored todo has created_at <= updated_at; no request changes the
\* created_at of a stored todo; every successful update or toggle sets the
\* todo's updated_at to the time of the request, later than it was.
C9_Timestamps == []TimestampsOrdered /\ [][TimestampsStep]_vars

C9_TouchedAfterCreation ==
    \E id \in StoredIds :
        /\ response = Redirect("toggle", id)
        /\ todos[id].created_at < todos[id].updated_at
        /\ todos[id].updated_at = clock

\* C10: a toggle changes only completed and updated_at of its target, also
\* when an update of the same id was committed between the toggle's read and
\* its write: title, description, due_date and created_at of the target and
\* every other row stay as they are in the table.
C10_ToggleWritesOnlyTheFlag ==
    [][\A w \in Workers :
         (pc[w] = "toggle_save" /\ pc'[w] = "idle" /\ obj[w].pk \in StoredIds) =>
            LET pk == obj[w].pk
            IN  /\ todos'[pk].title = todos[pk].title
                /\ todos'[pk].description = todos[pk].description
                /\ todos'[pk].due_date = todos[pk].due_date
                /\ todos'[pk].created_at = todos[pk].created_at
                /\ \A id \in StoredIds \ {pk} :
                     id \in DOMAIN todos' /\ todos'[id] = todos[id]]_vars

=============================================================================
